---- MODULE Spec2Model ----
(***************************************************************************)
(* The worker bridge of biometric-sync: electron/python-bridge.js (class   *)
(* PythonBridge) and the parts of electron/main.js that create, use and    *)
(* terminate it, and the sync scheduler of electron/main.js (syncInterval,  *)
(* startAutoSync, toggleSync).                                             *)
(*                                                                         *)
(* Every JavaScript function is an operator from a program state S to the  *)
(* program state after the function has run; every action is one task of   *)
(* the single-threaded event loop (an IPC command, a timer callback, an    *)
(* event of the worker process), together with the promise reactions       *)
(* (microtasks) it triggers, which run before any other task.              *)
(***************************************************************************)
EXTENDS Integers, Sequences, FiniteSets, TLC

\* Bounds of the model.
MaxBridges == 2     \* PythonBridge objects constructed (initial start + retries)
MaxCalls == 2       \* invocations of PythonBridge.call(), handshakes included
MaxTimers == 2      \* sync timers created by setInterval()
MaxSyncs == 2       \* invocations of triggerManualSync() where sync runs are studied
MaxFiles == 1       \* files of interest that exist on a host

VARIABLES
    pythonBridge,   \* main.js `pythonBridge`: 0 (null) or the index of the current bridge
    bridges,        \* the PythonBridge objects, in order of construction
    procs,          \* the worker process spawned by each bridge, and what was written to it
    inits,          \* each bridge's initialize() promise and its 30 s initTimeout timer
    calls,          \* the promise returned by each invocation of call(), in order
    store,          \* the persisted settings `store`: syncFrequency and autoStart
    syncInterval,   \* main.js `syncInterval`: 0 (null) or the handle of a sync timer
    timers,         \* the timers created by setInterval(), in order of creation
    pauseChecked,   \* the `checked` state of the tray's 'Pause Sync' item
    syncRuns,       \* each invocation of triggerManualSync(): what invoked it and
                    \* the events it has sent to the window, keyed by its call
    isRunning,      \* App.jsx `syncStatus.isRunning`
    runtime         \* the host as getPythonPath() finds it, what it probed, in
                    \* order, and what it returned

vars == <<pythonBridge, bridges, procs, inits, calls,
          store, syncInterval, timers, pauseChecked, syncRuns, isRunning, runtime>>

State == [pythonBridge |-> pythonBridge, bridges |-> bridges, procs |-> procs,
          inits |-> inits, calls |-> calls, store |-> store,
          syncInterval |-> syncInterval, timers |-> timers,
          pauseChecked |-> pauseChecked, syncRuns |-> syncRuns,
          isRunning |-> isRunning, runtime |-> runtime]

Commit(S) ==
    /\ pythonBridge' = S.pythonBridge
    /\ bridges' = S.bridges
    /\ procs' = S.procs
    /\ inits' = S.inits
    /\ calls' = S.calls
    /\ store' = S.store
    /\ syncInterval' = S.syncInterval
    /\ timers' = S.timers
    /\ pauseChecked' = S.pauseChecked
    /\ syncRuns' = S.syncRuns
    /\ isRunning' = S.isRunning
    /\ runtime' = S.runtime

----------------------------------------------------------------------------
\* Inputs.

\* Methods the command router passes to call(); "initialize" is the handshake,
\* "run_sync" the method of triggerManualSync.
IpcMethods == {"get_devices"}

\* What initialize() finds when it resolves the runtime and spawns the worker.
Envs == {"ok", "python_missing", "script_missing", "spawn_failed"}

Results == {"r1"}
ErrorMessages == {"boom", ""}      \* "" : error.message empty or absent
ProcessErrors == {"EPIPE"}

\* Values of the syncFrequency setting, in minutes.
Frequencies == {5, 10}

\* What 'config:set' may store: a sync frequency or the autoStart flag.
ConfigInputs ==
    {<<"syncFrequency", f>> : f \in Frequencies} \cup {<<"autoStart", a>> : a \in BOOLEAN}

\* Lines the worker may print: {id, result} or {id, error: {message}}; id 0 stands
\* for a line without a (truthy) id.
\* error: whether message.error is present; errorMessage: message.error.message.
Inbound ==
    [id : 0..MaxCalls, error : {FALSE}, errorMessage : {""}, result : Results]
        \cup [id : 0..MaxCalls, error : {TRUE}, errorMessage : ErrorMessages,
              result : {""}]

----------------------------------------------------------------------------
\* JavaScript Map, as a function on the set of its keys.

EmptyMap == [k \in {} |-> 0]
MapSet(m, k, v) == [x \in (DOMAIN m) \cup {k} |-> IF x = k THEN v ELSE m[x]]
MapDelete(m, k) == [x \in (DOMAIN m) \ {k} |-> m[x]]

\* clearTimeout(t): cancels a timer that has not fired yet.
clearTimeout(t) == IF t = "armed" THEN "cleared" ELSE t

\* constructor(): pythonProcess null, no pending request, requestId 0.
NewBridge ==
    [pythonProcess |-> 0, pendingRequests |-> EmptyMap, requestId |-> 0,
     isInitialized |-> FALSE]

----------------------------------------------------------------------------
\* Runtime resolution: getPythonPath() and findSystemPython().

Platforms == {"win32", "darwin", "linux"}

\* The command names findSystemPython() tries, by platform.
pythonCommands(platform) ==
    IF platform = "win32" THEN <<"python", "python3", "py">> ELSE <<"python3", "python">>

\* The installation paths findSystemPython() tries on Windows.
commonPaths ==
    <<"%LOCALAPPDATA%/Programs/Python/Python311/python.exe",
      "%LOCALAPPDATA%/Programs/Python/Python310/python.exe",
      "%LOCALAPPDATA%/Programs/Python/Python39/python.exe",
      "C:/Python311/python.exe",
      "C:/Python310/python.exe",
      "C:/Python39/python.exe",
      "%USERPROFILE%/AppData/Local/Programs/Python/Python311/python.exe",
      "%USERPROFILE%/AppData/Local/Programs/Python/Python310/python.exe">>

\* The bundled locations getPythonPath() tries in a packaged build.
bundledPaths(platform) ==
    IF platform = "win32"
    THEN <<"resources/python-runtime/python.exe", "resources/python/python.exe">>
    ELSE <<"resources/python-runtime/bin/python3", "resources/python/bin/python3">>

Range(seq) == {seq[i] : i \in 1..Len(seq)}

\* A loop `for (c of candidates) if (ok(c)) return c` started with the probes
\* already made: the probes up to the first candidate in `good`, and that
\* candidate, or "" when the loop ends without returning.
probe(attempts, kind, candidates, good) ==
    LET hits == {i \in 1..Len(candidates) : candidates[i] \in good}
        last == IF hits = {} THEN Len(candidates)
                ELSE CHOOSE i \in hits : \A j \in hits : i <= j
    IN [attempts |-> attempts \o
                     [i \in 1..last |-> [kind |-> kind, candidate |-> candidates[i]]],
        result |-> IF hits = {} THEN "" ELSE candidates[last]]

\* findSystemPython(): the command names, `<cmd> --version` having to print
\* 'Python 3'; then, on Windows, the installation paths; else it throws.
findSystemPython(host, attempts) ==
    LET byCommand == probe(attempts, "command", pythonCommands(host.platform),
                           {c \in DOMAIN host.commands : host.commands[c] = "Python 3"})
    IN IF byCommand.result # "" THEN byCommand
       ELSE IF host.platform = "win32"
       THEN LET byPath == probe(byCommand.attempts, "path", commonPaths, host.existing)
            IN IF byPath.result # "" THEN byPath
               ELSE [byPath EXCEPT !.result = "Python 3 not found"]
       ELSE [byCommand EXCEPT !.result = "Python 3 not found"]

\* getPythonPath(): in a packaged build the bundled locations first; otherwise,
\* and when none exists, findSystemPython().
getPythonPath(host) ==
    IF ~host.isPackaged THEN findSystemPython(host, <<>>)
    ELSE LET bundled == probe(<<>>, "bundled", bundledPaths(host.platform), host.existing)
         IN IF bundled.result # "" THEN bundled
            ELSE findSystemPython(host, bundled.attempts)

\* No resolution is under study.
NoRuntime == [host |-> "none", attempts |-> <<>>, result |-> ""]

----------------------------------------------------------------------------
\* The sync scheduler of main.js.

\* clearInterval(t): the timer t ticks no more.
clearInterval(S, t) == [S EXCEPT !.timers[t].active = FALSE]

\* startAutoSync() replacing the handle without cancelling the timer it held.
startAutoSyncNoClear(S) ==
    LET frequency == S.store.syncFrequency * 60 * 1000
    IN [S EXCEPT !.timers = Append(@, [period |-> frequency, active |-> TRUE]),
                 !.syncInterval = Len(S.timers) + 1]

\* startAutoSync(): reads the stored frequency, cancels the timer held in
\* syncInterval and sets a new one.
startAutoSync(S) ==
    LET frequency == S.store.syncFrequency * 60 * 1000
        S1 == IF S.syncInterval # 0 THEN clearInterval(S, S.syncInterval) ELSE S
    IN [S1 EXCEPT !.timers = Append(@, [period |-> frequency, active |-> TRUE]),
                  !.syncInterval = Len(S.timers) + 1]

\* toggleSync(paused) dropping the handle on pause without cancelling the timer.
toggleSyncPauseKeepsTimer(S, paused) ==
    IF paused /\ S.syncInterval # 0
    THEN [S EXCEPT !.syncInterval = 0]
    ELSE IF ~paused THEN startAutoSync(S) ELSE S

\* toggleSync(paused).
toggleSync(S, paused) ==
    IF paused /\ S.syncInterval # 0
    THEN [clearInterval(S, S.syncInterval) EXCEPT !.syncInterval = 0]
    ELSE IF ~paused THEN startAutoSync(S) ELSE S

\* app.whenReady() after `await initializePythonBridge()`: starts the scheduler if
\* autoStart is set.
whenReadyResumed(S) == IF S.store.autoStart THEN startAutoSync(S) ELSE S

----------------------------------------------------------------------------
\* The sync events of main.js and their listeners in App.jsx.

\* A result without fields to read: null, or no `result` at all.
NullResult == "null"

\* mainWindow.webContents.send(name, payload) from the invocation of
\* triggerManualSync() whose call is h; the listener of App.jsx sets isRunning.
send(S, h, name, payload) ==
    [S EXCEPT !.syncRuns[h].events = Append(@, [name |-> name, payload |-> payload]),
              !.isRunning = (name = "sync:started")]

\* A catch block that gives up on auto-sync: reports the failure and stops the
\* sync timer.
syncCatchStopsTimer(S, h, error) ==
    LET S1 == send(S, h, "sync:error", error)
    IN IF S1.syncInterval # 0
       THEN [clearInterval(S1, S1.syncInterval) EXCEPT !.syncInterval = 0]
       ELSE S1

\* triggerManualSync(), catch block.
syncCatch(S, h, error) == send(S, h, "sync:error", error)

\* triggerManualSync() after `await pythonBridge.call('run_sync', {})` resolved:
\* sends 'sync:completed', then reads result.records_synced for the notification,
\* which throws into the catch block when the result is null or undefined.
syncThen(S, h, result) ==
    LET S1 == send(S, h, "sync:completed", result)
    IN IF result = NullResult
       THEN syncCatch(S1, h, "Cannot read properties of null (reading 'records_synced')")
       ELSE S1

----------------------------------------------------------------------------
\* Promises.

\* The text of the messages initialize() can reject with, word by word; a
\* message from outside the bridge is one opaque word.
Words(message) ==
    CASE message = "Python 3 not found" ->
            <<"Python", "3", "not", "found", ".", "Please", "install", "Python", "3.9">>
      [] message = "Python script not found" ->
            <<"Python", "script", "not", "found", ":", "main.py">>
      [] message = "Failed to start Python process" ->
            <<"Failed", "to", "start", "Python", "process", ":", "spawn">>
      [] message = "Python initialization timeout - Python may not be responding" ->
            <<"Python", "initialization", "timeout", "-", "Python", "may", "not",
              "be", "responding">>
      [] message = "Python process closed unexpectedly" ->
            <<"Python", "process", "closed", "unexpectedly">>
      [] message = "Request timeout: initialize" ->
            <<"Request", "timeout", ":", "initialize">>
      [] message = "Unknown error" -> <<"Unknown", "error">>
      [] OTHER -> <<message>>

\* String.prototype.includes on texts: needle occurs in text as a run of
\* consecutive words.
includes(text, needle) ==
    \E i \in 0..(Len(text) - Len(needle)) :
        \A k \in 1..Len(needle) : text[i + k] = needle[k]

\* The isPythonMissing flag of initializePythonBridge()'s catch block.
isPythonMissing(message) ==
    \/ includes(Words(message), <<"Python", "3", "not", "found">>)
    \/ includes(Words(message), <<"not", "found">>)
    \/ includes(Words(message), <<"ENOENT">>)

\* What initializePythonBridge() sends to the interface once initialize() has
\* settled.
NoEvent == [name |-> "none", message |-> "", isPythonMissing |-> FALSE]

pythonEvent(state, error) ==
    IF state = "resolved"
    THEN [NoEvent EXCEPT !.name = "python:ready"]
    ELSE [name |-> "python:error", message |-> error,
          isPythonMissing |-> isPythonMissing(error)]

\* resolve()/reject() of initialize()'s promise: the first settlement wins, and
\* initializePythonBridge() resumes with it.  The promise of the first bridge is
\* the one app.whenReady() awaits.
initSettle(S, b, state, error) ==
    IF S.inits[b].promise = "pending"
    THEN LET S1 == [S EXCEPT !.inits[b].promise = state, !.inits[b].error = error,
                             !.inits[b].event = pythonEvent(state, error)]
         IN IF b = 1 THEN whenReadyResumed(S1) ELSE S1
    ELSE S

\* .then() of the handshake call in initialize().
handshakeThen(S, b) ==
    LET S1 == [S EXCEPT !.inits[b].initTimeout = clearTimeout(@),
                        !.bridges[b].isInitialized = TRUE]
    IN initSettle(S1, b, "resolved", "")

\* .catch() of the handshake call in initialize().
handshakeCatch(S, b, error) ==
    LET S1 == [S EXCEPT !.inits[b].initTimeout = clearTimeout(@)]
    IN initSettle(S1, b, "rejected", error)

\* originalResolve / originalReject of the promise of call h, and the reactions
\* registered on it.
promiseSettle(S, h, state, value) ==
    LET c == S.calls[h]
        S1 == [S EXCEPT !.calls[h].settles = @ + 1] IN
    IF c.state # "pending" THEN S1
    ELSE LET S2 == [S1 EXCEPT !.calls[h].state = state, !.calls[h].value = value] IN
         CASE c.caller = "initialize" ->
                IF state = "resolved" THEN handshakeThen(S2, c.bridge)
                ELSE handshakeCatch(S2, c.bridge, value)
           [] c.caller = "sync" ->
                IF state = "resolved" THEN syncThen(S2, h, value)
                ELSE syncCatch(S2, h, value)
           [] OTHER -> S2

\* The `resolve` stored in the pending entry: clears the timer, then resolves.
entryResolve(S, h, result) ==
    promiseSettle([S EXCEPT !.calls[h].timeout = clearTimeout(@)], h, "resolved", result)

\* The `reject` stored in the pending entry: clears the timer, then rejects.
entryReject(S, h, error) ==
    promiseSettle([S EXCEPT !.calls[h].timeout = clearTimeout(@)], h, "rejected", error)

\* for (const [id, {reject}] of pendingRequests) reject(error), over the entries hs.
RECURSIVE rejectAll(_, _, _)
rejectAll(S, hs, error) ==
    IF hs = {} THEN S
    ELSE LET h == CHOOSE x \in hs : \A y \in hs : x <= y
         IN rejectAll(entryReject(S, h, error), hs \ {h}, error)

PendingHandles(S, b) ==
    {S.bridges[b].pendingRequests[id] : id \in DOMAIN S.bridges[b].pendingRequests}

----------------------------------------------------------------------------
\* PythonBridge.

\* call() without the check of pythonProcess: every call is stored and written.
callUnguarded(S, b, method, caller) ==
    LET id == S.bridges[b].requestId + 1
        h == Len(S.calls) + 1
    IN [S EXCEPT !.bridges[b].requestId = id,
                 !.bridges[b].pendingRequests = MapSet(@, id, h),
                 !.procs[b].stdin = Append(@, [method |-> method, id |-> id]),
                 !.calls = Append(@,
                   [bridge |-> b, id |-> id, method |-> method, caller |-> caller,
                    state |-> "pending", value |-> "",
                    timeout |-> "armed", settles |-> 0])]

\* call(method, params): throws when no process is attached; otherwise takes the
\* next id, stores the entry, arms the 60 s timer and writes the request.
call(S, b, method, caller) ==
    IF S.bridges[b].pythonProcess = 0
    THEN [S EXCEPT !.calls = Append(@,
            [bridge |-> b, id |-> 0, method |-> method, caller |-> caller,
             state |-> "rejected", value |-> "Python process not initialized",
             timeout |-> "none", settles |-> 1])]
    ELSE LET id == S.bridges[b].requestId + 1
             h == Len(S.calls) + 1
         IN [S EXCEPT !.bridges[b].requestId = id,
                      !.bridges[b].pendingRequests = MapSet(@, id, h),
                      !.procs[b].stdin = Append(@, [method |-> method, id |-> id]),
                      !.calls = Append(@,
                        [bridge |-> b, id |-> id, method |-> method, caller |-> caller,
                         state |-> "pending", value |-> "",
                         timeout |-> "armed", settles |-> 0])]

\* handleMessage matching by arrival order: the oldest pending entry takes the
\* response, whatever its id.
handleMessageOldest(S, b, message) ==
    IF message.id # 0 /\ DOMAIN S.bridges[b].pendingRequests # {}
    THEN LET ids == DOMAIN S.bridges[b].pendingRequests
             first == CHOOSE x \in ids : \A y \in ids : x <= y
             h == S.bridges[b].pendingRequests[first]
             S1 == [S EXCEPT !.bridges[b].pendingRequests = MapDelete(@, first)]
         IN IF message.error
            THEN entryReject(S1, h, IF message.errorMessage # ""
                                    THEN message.errorMessage
                                    ELSE "Unknown error")
            ELSE entryResolve(S1, h, message.result)
    ELSE S

\* handleMessage rejecting with a fixed text instead of the worker's message.
handleMessageGenericError(S, b, message) ==
    IF message.id # 0 /\ message.id \in DOMAIN S.bridges[b].pendingRequests
    THEN LET h == S.bridges[b].pendingRequests[message.id]
             S1 == [S EXCEPT !.bridges[b].pendingRequests = MapDelete(@, message.id)]
         IN IF message.error
            THEN entryReject(S1, h, "Unknown error")
            ELSE entryResolve(S1, h, message.result)
    ELSE S

\* handleMessage resolving without the response's result.
handleMessageNoResult(S, b, message) ==
    IF message.id # 0 /\ message.id \in DOMAIN S.bridges[b].pendingRequests
    THEN LET h == S.bridges[b].pendingRequests[message.id]
             S1 == [S EXCEPT !.bridges[b].pendingRequests = MapDelete(@, message.id)]
         IN IF message.error
            THEN entryReject(S1, h, IF message.errorMessage # ""
                                    THEN message.errorMessage
                                    ELSE "Unknown error")
            ELSE entryResolve(S1, h, "")
    ELSE S

\* handleMessage(message): settles and removes the entry stored under message.id.
handleMessage(S, b, message) ==
    IF message.id # 0 /\ message.id \in DOMAIN S.bridges[b].pendingRequests
    THEN LET h == S.bridges[b].pendingRequests[message.id]
             S1 == [S EXCEPT !.bridges[b].pendingRequests = MapDelete(@, message.id)]
         IN IF message.error
            THEN entryReject(S1, h, IF message.errorMessage # ""
                                    THEN message.errorMessage
                                    ELSE "Unknown error")
            ELSE entryResolve(S1, h, message.result)
    ELSE S

\* The 60 s timer rejecting without removing the entry.
requestTimeoutKeepsEntry(S, h) ==
    LET c == S.calls[h]
        S1 == [S EXCEPT !.calls[h].timeout = "fired"] IN
    IF c.id \in DOMAIN S.bridges[c.bridge].pendingRequests
    THEN promiseSettle(S1, h, "rejected", "Request timeout: " \o c.method)
    ELSE S1

\* The 60 s timer treating the timeout as a failure of the worker: kills it and
\* rejects everything that is pending on the bridge.
requestTimeoutKillsWorker(S, h) ==
    LET c == S.calls[h]
        S1 == [S EXCEPT !.calls[h].timeout = "fired",
                        !.procs[c.bridge].state = IF @ = "alive" THEN "killed" ELSE @]
        S2 == rejectAll(S1, PendingHandles(S, c.bridge), "Request timeout: " \o c.method)
    IN [S2 EXCEPT !.bridges[c.bridge].pendingRequests = EmptyMap]

\* The 60 s timer of call h: removes the entry if it is still there and rejects.
requestTimeout(S, h) ==
    LET c == S.calls[h]
        S1 == [S EXCEPT !.calls[h].timeout = "fired"] IN
    IF c.id \in DOMAIN S.bridges[c.bridge].pendingRequests
    THEN promiseSettle(
            [S1 EXCEPT !.bridges[c.bridge].pendingRequests = MapDelete(@, c.id)],
            h, "rejected", "Request timeout: " \o c.method)
    ELSE S1

\* The 30 s initTimeout of initialize().
initTimeoutFired(S, b) ==
    initSettle([S EXCEPT !.inits[b].initTimeout = "fired"], b, "rejected",
               "Python initialization timeout - Python may not be responding")

\* The 'error' handler without pendingRequests.clear().
onProcessErrorNoClear(S, b, error) ==
    rejectAll(S, PendingHandles(S, b), "Python process error: " \o error)

\* pythonProcess.on('error'): rejects every pending request, clears the table.
onProcessError(S, b, error) ==
    LET S1 == rejectAll(S, PendingHandles(S, b), "Python process error: " \o error)
    IN [S1 EXCEPT !.bridges[b].pendingRequests = EmptyMap]

\* The 'close' handler dropping the entries without rejecting them.
onProcessCloseNoReject(S, b) ==
    [S EXCEPT !.bridges[b].isInitialized = FALSE,
              !.bridges[b].pendingRequests = EmptyMap]

\* pythonProcess.on('close'): isInitialized false, rejects every pending request,
\* clears the table.
onProcessClose(S, b) ==
    LET S1 == [S EXCEPT !.bridges[b].isInitialized = FALSE]
        S2 == rejectAll(S1, PendingHandles(S, b), "Python process closed unexpectedly")
    IN [S2 EXCEPT !.bridges[b].pendingRequests = EmptyMap]

\* ChildProcess.kill(): signals a process that has not exited.
kill(p) == IF p.state = "alive" THEN [p EXCEPT !.state = "killed"] ELSE p

\* terminate() without pendingRequests.clear().
terminateKeepsPending(S, b) ==
    LET S1 == IF S.bridges[b].pythonProcess # 0
              THEN [S EXCEPT !.procs[b] = kill(@), !.bridges[b].pythonProcess = 0]
              ELSE S
    IN [S1 EXCEPT !.bridges[b].isInitialized = FALSE]

\* terminate() that also restarts the id counter.
terminateResetsId(S, b) ==
    LET S1 == IF S.bridges[b].pythonProcess # 0
              THEN [S EXCEPT !.procs[b] = kill(@), !.bridges[b].pythonProcess = 0]
              ELSE S
    IN [S1 EXCEPT !.bridges[b].isInitialized = FALSE,
                  !.bridges[b].pendingRequests = EmptyMap,
                  !.bridges[b].requestId = 0]

\* terminate(): kills and detaches the process, clears the table.
terminate(S, b) ==
    LET S1 == IF S.bridges[b].pythonProcess # 0
              THEN [S EXCEPT !.procs[b] = kill(@), !.bridges[b].pythonProcess = 0]
              ELSE S
    IN [S1 EXCEPT !.bridges[b].isInitialized = FALSE,
                  !.bridges[b].pendingRequests = EmptyMap]

\* initialize(): resolves the runtime and the script, spawns the worker, attaches
\* the handlers, arms initTimeout and issues the handshake call.
initialize(S, b, env) ==
    LET started == [S EXCEPT !.inits[b].promise = "pending"] IN
    CASE env = "python_missing" ->
            initSettle(started, b, "rejected", "Python 3 not found")
      [] env = "script_missing" ->
            initSettle(started, b, "rejected", "Python script not found")
      [] env = "spawn_failed" ->
            initSettle(started, b, "rejected", "Failed to start Python process")
      [] OTHER ->
            LET S1 == [started EXCEPT !.bridges[b].pythonProcess = b,
                                      !.procs[b].state = "alive",
                                      !.inits[b].initTimeout = "armed"]
            IN call(S1, b, "initialize", "initialize")

----------------------------------------------------------------------------
\* main.js.

\* initializePythonBridge(): replaces `pythonBridge` by a new PythonBridge and
\* initializes it.
initializePythonBridge(S, env) ==
    LET b == Len(S.bridges) + 1
        S1 == [S EXCEPT !.pythonBridge = b,
                        !.bridges = Append(@, NewBridge),
                        !.procs = Append(@, [state |-> "none", stdin |-> <<>>]),
                        !.inits = Append(@, [promise |-> "none", error |-> "",
                                             initTimeout |-> "none",
                                             event |-> NoEvent])]
    IN initialize(S1, b, env)

\* triggerManualSync() that also restarts the sync timer.
triggerManualSyncRestartsTimer(S) ==
    IF S.pythonBridge # 0
    THEN LET h == Len(S.calls) + 1
             S1 == [S EXCEPT !.syncRuns =
                        MapSet(@, h, [origin |-> "manual", events |-> <<>>])]
             S2 == call(send(S1, h, "sync:started", ""), S.pythonBridge, "run_sync", "sync")
             S3 == IF S2.calls[h].state = "rejected"
                   THEN syncCatch(S2, h, S2.calls[h].value) ELSE S2
         IN IF S3.syncInterval # 0 THEN startAutoSync(S3) ELSE S3
    ELSE S

\* triggerManualSync(): if there is a bridge, sends 'sync:started' and issues one
\* run_sync call on the current bridge; a call() that throws goes to the catch
\* block at once.
triggerManualSync(S) ==
    IF S.pythonBridge # 0
    THEN LET h == Len(S.calls) + 1
             S1 == [S EXCEPT !.syncRuns =
                        MapSet(@, h, [origin |-> "manual", events |-> <<>>])]
             S2 == call(send(S1, h, "sync:started", ""), S.pythonBridge, "run_sync", "sync")
         IN IF S2.calls[h].state = "rejected" THEN syncCatch(S2, h, S2.calls[h].value)
            ELSE S2
    ELSE S

\* The callback of setInterval() in startAutoSync(): () => { triggerManualSync() }.
syncTick(S) ==
    LET S1 == triggerManualSync(S)
    IN IF Len(S1.calls) > Len(S.calls)
       THEN [S1 EXCEPT !.syncRuns[Len(S1.calls)].origin = "timer"]
       ELSE S1

\* The command router's handlers: one call on the current bridge.
ipcHandler(S, method) == call(S, S.pythonBridge, method, "ipc")

\* ipcMain 'devices:add': pythonBridge.call('add_device', device), the device as
\* the interface sent it.
devicesAdd(S, device) ==
    LET S1 == call(S, S.pythonBridge, "add_device", "ipc")
        b == S.pythonBridge
    IN IF Len(S1.procs[b].stdin) > Len(S.procs[b].stdin)
       THEN [S1 EXCEPT !.procs[b].stdin[Len(S1.procs[b].stdin)] =
                [method |-> "add_device", id |-> S1.bridges[b].requestId,
                 params |-> device]]
       ELSE S1

\* app.on('before-quit'): terminates the bridge and cancels the sync timer;
\* syncInterval keeps the handle.
beforeQuit(S) ==
    LET S1 == IF S.pythonBridge # 0 THEN terminate(S, S.pythonBridge) ELSE S
    IN IF S1.syncInterval # 0 THEN clearInterval(S1, S1.syncInterval) ELSE S1

----------------------------------------------------------------------------
\* The state machine.

\* A first start: the settings have the defaults of the store's schema.
Init ==
    /\ pythonBridge = 0
    /\ bridges = <<>>
    /\ procs = <<>>
    /\ inits = <<>>
    /\ calls = <<>>
    /\ store = [syncFrequency |-> 5, autoStart |-> FALSE]
    /\ syncInterval = 0
    /\ timers = <<>>
    /\ pauseChecked = FALSE
    /\ syncRuns = EmptyMap
    /\ isRunning = FALSE
    /\ runtime = NoRuntime

Bridges == 1..Len(bridges)
Handles == 1..Len(calls)

\* app.whenReady(): the handlers are registered and the first bridge is started.
AppReady(env) ==
    /\ Len(bridges) = 0
    /\ Commit(initializePythonBridge(State, env))

\* ipcMain 'python:retry'.
PythonRetry(env) ==
    /\ Len(bridges) \in 1..(MaxBridges - 1)
    /\ Len(calls) < MaxCalls
    /\ Commit(initializePythonBridge(State, env))

\* ipcMain 'python:call', 'devices:list', ... : a command of the interface.
IpcCall(method) ==
    /\ Len(bridges) >= 1
    /\ Len(calls) < MaxCalls
    /\ Commit(ipcHandler(State, method))

\* 'sync:trigger', the tray's Sync Now, or a tick of the sync timer.
TriggerManualSync ==
    /\ Len(bridges) >= 1
    /\ Len(calls) < MaxCalls
    /\ Commit(triggerManualSync(State))

\* The worker prints a line: PythonShell emits 'message'.
HandleMessage(b, message) ==
    /\ b \in Bridges
    /\ procs[b].state \in {"alive", "killed"}
    /\ Commit(handleMessage(State, b, message))

\* Timers of equal delay fire in the order they were set, and a 30 s initTimeout
\* set before a 60 s request timer fires before it.
RequestTimeout(h) ==
    /\ h \in Handles
    /\ calls[h].timeout = "armed"
    /\ \A g \in 1..(h - 1) : calls[g].timeout # "armed"
    /\ \A g \in 1..h : calls[g].caller = "initialize"
                            => inits[calls[g].bridge].initTimeout # "armed"
    /\ Commit(requestTimeout(State, h))

InitTimeout(b) ==
    /\ b \in Bridges
    /\ inits[b].initTimeout = "armed"
    /\ \A a \in 1..(b - 1) : inits[a].initTimeout # "armed"
    /\ Commit(initTimeoutFired(State, b))

\* PythonShell emits 'error'.
ProcessError(b, error) ==
    /\ b \in Bridges
    /\ procs[b].state \in {"alive", "killed"}
    /\ Commit(onProcessError(State, b, error))

\* The worker has exited and its streams are closed: PythonShell emits 'close'.
ProcessClose(b) ==
    /\ b \in Bridges
    /\ procs[b].state \in {"alive", "killed"}
    /\ Commit([onProcessClose(State, b) EXCEPT !.procs[b].state = "exited"])

\* app 'before-quit'.
BeforeQuit ==
    /\ Commit(beforeQuit(State))

Next ==
    \/ \E env \in Envs : AppReady(env)
    \/ \E env \in Envs : PythonRetry(env)
    \/ \E method \in IpcMethods : IpcCall(method)
    \/ TriggerManualSync
    \/ \E b \in 1..MaxBridges, message \in Inbound : HandleMessage(b, message)
    \/ \E h \in 1..MaxCalls : RequestTimeout(h)
    \/ \E b \in 1..MaxBridges : InitTimeout(b)
    \/ \E b \in 1..MaxBridges, error \in ProcessErrors : ProcessError(b, error)
    \/ \E b \in 1..MaxBridges : ProcessClose(b)
    \/ BeforeQuit

\* The bridge under every command of the interface, on a first start and with
\* the tray's pause item untouched: the scheduler stays stopped, and a sync is a
\* TriggerManualSync.
Spec == Init /\ [][Next]_vars

\* The event loop keeps running: a timer that is armed fires, and a worker that was
\* killed exits and closes its streams.  A worker that was not killed may run for
\* ever, and no response is ever owed.
Fairness ==
    /\ \A h \in 1..MaxCalls : WF_vars(RequestTimeout(h))
    /\ \A b \in 1..MaxBridges : WF_vars(InitTimeout(b))
    /\ \A b \in 1..MaxBridges :
          WF_vars(b \in Bridges /\ procs[b].state = "killed" /\ ProcessClose(b))

FairSpec == Init /\ [][Next]_vars /\ Fairness

----------------------------------------------------------------------------
\* The scheduler.

\* A start with settings saved by an earlier run.
SchedInit ==
    /\ pythonBridge = 0
    /\ bridges = <<>>
    /\ procs = <<>>
    /\ inits = <<>>
    /\ calls = <<>>
    /\ store \in [syncFrequency : Frequencies, autoStart : BOOLEAN]
    /\ syncInterval = 0
    /\ timers = <<>>
    /\ pauseChecked = FALSE
    /\ syncRuns = EmptyMap
    /\ isRunning = FALSE
    /\ runtime = NoRuntime

\* A click on the tray's 'Pause Sync' checkbox: the item's checked state flips and
\* toggleSync(item.checked) runs.
ToggleSync ==
    /\ Len(bridges) >= 1
    /\ ~pauseChecked => Len(timers) < MaxTimers
    /\ Commit(toggleSync([State EXCEPT !.pauseChecked = ~pauseChecked], ~pauseChecked))

\* ipcMain 'config:set': store.set(key, value).
ConfigSet(key, value) ==
    /\ Len(bridges) >= 1
    /\ Commit([State EXCEPT !.store[key] = value])

\* A tick of the sync timer t.
Tick(t) ==
    /\ t \in 1..Len(timers)
    /\ timers[t].active
    /\ Len(calls) < MaxCalls
    /\ Commit(syncTick(State))

\* The responses of a worker that answers every request with a result.
Successes == {m \in Inbound : ~m.error}

\* The scheduler with one bridge: the tray, the settings, the timer's ticks, and
\* the events of a worker that reports no error.
SchedNext ==
    \/ \E env \in Envs : AppReady(env)
    \/ ToggleSync
    \/ \E c \in ConfigInputs : ConfigSet(c[1], c[2])
    \/ \E t \in 1..MaxTimers : Tick(t)
    \/ \E b \in 1..MaxBridges, message \in Successes : HandleMessage(b, message)
    \/ \E h \in 1..MaxCalls : RequestTimeout(h)
    \/ \E b \in 1..MaxBridges : InitTimeout(b)
    \/ \E b \in 1..MaxBridges : ProcessClose(b)
    \/ BeforeQuit

SchedSpec == SchedInit /\ [][SchedNext]_vars

\* 'config:set' while the tray's pause item is not checked.
ConfigSetUnpaused(key, value) ==
    /\ ~pauseChecked
    /\ ConfigSet(key, value)

\* The scheduler when no setting is saved between a pause and the resume that
\* follows it.
SchedNextQuietPause ==
    \/ \E env \in Envs : AppReady(env)
    \/ ToggleSync
    \/ \E c \in ConfigInputs : ConfigSetUnpaused(c[1], c[2])
    \/ \E t \in 1..MaxTimers : Tick(t)
    \/ \E b \in 1..MaxBridges, message \in Successes : HandleMessage(b, message)
    \/ \E h \in 1..MaxCalls : RequestTimeout(h)
    \/ \E b \in 1..MaxBridges : InitTimeout(b)
    \/ \E b \in 1..MaxBridges : ProcessClose(b)
    \/ BeforeQuit

SchedQuietPauseSpec == SchedInit /\ [][SchedNextQuietPause]_vars

----------------------------------------------------------------------------
\* The command router with device records of every shape.

\* Device records the interface may send: the name may be empty, and the address
\* is a list of numbers that may or may not be an IPv4 address.
Devices == [name : {"", "Main Door"}, ip : {<<192, 168, 1, 201>>, <<192, 168, 1>>, <<192, 168, 1, 999>>}]

\* ipcMain 'devices:add'.
DevicesAdd(device) ==
    /\ Len(bridges) >= 1
    /\ Len(calls) < MaxCalls
    /\ Commit(devicesAdd(State, device))

RouterNext ==
    \/ \E env \in Envs : AppReady(env)
    \/ \E device \in Devices : DevicesAdd(device)
    \/ \E message \in Inbound : HandleMessage(1, message)
    \/ \E h \in 1..MaxCalls : RequestTimeout(h)
    \/ InitTimeout(1)
    \/ ProcessClose(1)
    \/ BeforeQuit

RouterSpec == Init /\ [][RouterNext]_vars

----------------------------------------------------------------------------
\* Runtime resolution on every host.

\* Files that may exist on the host.
HostPaths ==
    Range(commonPaths) \cup UNION {Range(bundledPaths(p)) : p \in Platforms}

\* What `<cmd> --version` does on the host.
CommandOutcomes == {"Python 3", "Python 2", "fails"}

\* Hosts: packaged or not, the platform, at most MaxFiles of the files, and the
\* outcome of each command name.
Hosts ==
    {[isPackaged |-> k, platform |-> p, existing |-> e, commands |-> c] :
        k \in BOOLEAN, p \in Platforms,
        e \in {x \in SUBSET HostPaths : Cardinality(x) <= MaxFiles},
        c \in [{"python", "python3", "py"} -> CommandOutcomes]}

ResolveInit ==
    /\ pythonBridge = 0
    /\ bridges = <<>>
    /\ procs = <<>>
    /\ inits = <<>>
    /\ calls = <<>>
    /\ store = [syncFrequency |-> 5, autoStart |-> FALSE]
    /\ syncInterval = 0
    /\ timers = <<>>
    /\ pauseChecked = FALSE
    /\ syncRuns = EmptyMap
    /\ isRunning = FALSE
    /\ runtime \in {[host |-> h, attempts |-> <<>>, result |-> ""] : h \in Hosts}

\* initialize() calls getPythonPath().
ResolveRuntime ==
    /\ runtime.result = ""
    /\ Commit([State EXCEPT !.runtime.attempts = getPythonPath(runtime.host).attempts,
                             !.runtime.result = getPythonPath(runtime.host).result])

ResolveNext == ResolveRuntime

ResolveSpec == ResolveInit /\ [][ResolveNext]_vars

----------------------------------------------------------------------------
\* Sync runs: one bridge, and up to MaxSyncs invocations of triggerManualSync()
\* besides the handshake.

\* A start with the default frequency, auto-sync enabled or not.
SyncInit ==
    /\ pythonBridge = 0
    /\ bridges = <<>>
    /\ procs = <<>>
    /\ inits = <<>>
    /\ calls = <<>>
    /\ store \in [syncFrequency : {5}, autoStart : BOOLEAN]
    /\ syncInterval = 0
    /\ timers = <<>>
    /\ pauseChecked = FALSE
    /\ syncRuns = EmptyMap
    /\ isRunning = FALSE
    /\ runtime = NoRuntime

\* What the worker may print in answer to a sync: a result, a result without
\* fields (null), or an error.
SyncInbound ==
    [id : 0..(MaxSyncs + 1), error : {FALSE}, errorMessage : {""},
     result : Results \cup {NullResult}]
        \cup [id : 0..(MaxSyncs + 1), error : {TRUE}, errorMessage : {"boom"},
              result : {""}]

\* 'sync:trigger' or the tray's 'Sync Now'.
ManualSync ==
    /\ Len(bridges) >= 1
    /\ Cardinality(DOMAIN syncRuns) < MaxSyncs
    /\ Commit(triggerManualSync(State))

\* A tick of the sync timer t.
TimerSync(t) ==
    /\ t \in 1..Len(timers)
    /\ timers[t].active
    /\ Cardinality(DOMAIN syncRuns) < MaxSyncs
    /\ Commit(syncTick(State))

SyncNext ==
    \/ \E env \in Envs : AppReady(env)
    \/ ManualSync
    \/ \E t \in 1..MaxTimers : TimerSync(t)
    \/ \E message \in SyncInbound : HandleMessage(1, message)
    \/ \E h \in 1..(MaxSyncs + 1) : RequestTimeout(h)
    \/ InitTimeout(1)
    \/ ProcessClose(1)
    \/ BeforeQuit

SyncSpec == SyncInit /\ [][SyncNext]_vars

----------------------------------------------------------------------------
\* Vocabulary of the properties.

\* Call h has an entry in the pending table bs of its bridge.
InTable(bs, h) ==
    \E id \in DOMAIN bs[calls[h].bridge].pendingRequests :
        bs[calls[h].bridge].pendingRequests[id] = h

\* call() accepted h: an id was assigned and an entry stored.
Accepted(h) == h \in Handles /\ calls[h].id # 0

TimeoutError(h) == "Request timeout: " \o calls[h].method
ClosedError == "Python process closed unexpectedly"
NotInitializedError == "Python process not initialized"

----------------------------------------------------------------------------
\* C1: a response settles the pending call whose id is the response's id, and
\* changes no other call, whatever the order in which responses arrive.
C1_ResponseRoutedById ==
    [][vars' # vars =>
        \A b \in Bridges, m \in Inbound :
          \/ /\ \A h \in Handles :
                    calls'[h] # calls[h] =>
                        calls[h].bridge = b /\ calls[h].id = m.id /\ m.id # 0
             /\ \A h \in Handles :
                    (calls[h].bridge = b /\ calls[h].id = m.id /\ InTable(bridges, h)) =>
                        /\ calls'[h].state = IF m.error THEN "rejected" ELSE "resolved"
                        /\ ~InTable(bridges', h)
          \/ ~HandleMessage(b, m)]_vars

\* Two calls pending on one bridge, the later one answered first.
C1_Witness ==
    \E g \in Handles, h \in Handles :
        /\ g < h /\ calls[g].bridge = calls[h].bridge
        /\ calls[g].state = "pending" /\ InTable(bridges, g)
        /\ calls[h].state = "resolved" /\ calls[h].id = calls[g].id + 1

\* C2: a request timer that fires on a pending entry rejects the call with
\* "Request timeout: <method>" and removes the entry; a response that arrives
\* later with that id changes nothing at all (no step that changes the state is
\* the handling of such a response).
C2_TimeoutThenLateResponseIgnored ==
    [][vars' # vars =>
        /\ \A h \in Handles :
              (calls[h].timeout = "armed" /\ calls'[h].timeout = "fired"
                  /\ InTable(bridges, h)) =>
                  /\ calls'[h].state = "rejected"
                  /\ calls'[h].value = TimeoutError(h)
                  /\ ~InTable(bridges', h)
                  /\ calls[h].id \notin DOMAIN bridges'[calls[h].bridge].pendingRequests
        /\ \A h \in Handles, m \in Inbound :
              (/\ calls[h].timeout = "fired" /\ calls[h].value = TimeoutError(h)
               /\ m.id = calls[h].id)
                  => ~HandleMessage(calls[h].bridge, m)]_vars

\* A call has timed out and its worker is still running, so that a late response
\* can arrive.
C2_Witness ==
    \E h \in Handles :
        /\ calls[h].state = "rejected" /\ calls[h].value = TimeoutError(h)
        /\ calls[h].timeout = "fired"
        /\ ~InTable(bridges, h)
        /\ procs[calls[h].bridge].state = "alive"

\* C3: the 'close' event of a worker rejects every call pending on its bridge
\* with the worker-terminated error, empties the table and clears isInitialized.
C3_CloseRejectsAllPending ==
    [][\A b \in Bridges :
          (procs[b].state # "exited" /\ procs'[b].state = "exited") =>
            /\ bridges'[b].pendingRequests = EmptyMap
            /\ ~bridges'[b].isInitialized
            /\ \A h \in Handles :
                  (calls[h].bridge = b /\ InTable(bridges, h)) =>
                      /\ calls'[h].state = "rejected"
                      /\ calls'[h].value = ClosedError]_vars

\* A worker has exited while two calls were pending on its bridge.
C3_Witness ==
    \E b \in Bridges :
        /\ procs[b].state = "exited"
        /\ Cardinality({h \in Handles : /\ calls[h].bridge = b
                                        /\ calls[h].state = "rejected"
                                        /\ calls[h].value = ClosedError}) >= 2

\* C4: a pending entry is settled at most once and leaves the table in the step
\* that settles it: what is in the table is unsettled, and what has left the
\* table is not settled afterwards.
C4_SettledOnceAndRemoved ==
    /\ [](\A h \in Handles :
            /\ calls[h].settles <= 1
            /\ InTable(bridges, h) => calls[h].state = "pending" /\ calls[h].settles = 0)
    /\ [][\A h \in Handles :
            calls'[h].settles # calls[h].settles =>
                InTable(bridges, h) /\ ~InTable(bridges', h)]_vars

\* A call settled by its timer whose worker then failed and exited: neither the
\* 'error' nor the 'close' handler settled it again.
C4_Witness ==
    \E h \in Handles :
        /\ Accepted(h) /\ calls[h].settles = 1
        /\ calls[h].value = TimeoutError(h)
        /\ procs[calls[h].bridge].state = "exited"

----------------------------------------------------------------------------
\* The worker of bridge b is Ready: spawned, handshake resolved, neither exited
\* nor killed.
HandshakeState(b) ==
    {calls[h].state : h \in {g \in Handles : /\ calls[g].bridge = b
                                             /\ calls[g].caller = "initialize"}}

Ready(b) == procs[b].state = "alive" /\ "resolved" \in HandshakeState(b)

\* C5: every call that call() accepted settles eventually.
C5_EveryAcceptedCallSettles ==
    \A h \in 1..MaxCalls :
        [](Accepted(h) => <>(h \in Handles /\ calls[h].state # "pending"))

\* The same claim on a finite run: once the 60 s timer of an accepted call has
\* fired, the call is no longer suspended.
C5_SettledOnceTimerFired ==
    \A h \in Handles :
        (Accepted(h) /\ calls[h].timeout = "fired") => calls[h].state # "pending"

\* C6: terminate() on a bridge with an attached worker rejects every call that
\* is pending on the bridge at that moment.
C6_TerminateRejectsPending ==
    [][\A b \in Bridges :
          (bridges[b].pythonProcess # 0 /\ bridges'[b].pythonProcess = 0) =>
            \A h \in Handles :
                (calls[h].bridge = b /\ InTable(bridges, h)) =>
                    calls'[h].state = "rejected"]_vars

\* C7: once the worker of a bridge has exited, no step stores a pending entry on
\* that bridge or writes a request to that worker.
C7_NoCallAcceptedAfterExit ==
    [][\A b \in Bridges :
          procs[b].state = "exited" =>
            /\ DOMAIN bridges'[b].pendingRequests \subseteq DOMAIN bridges[b].pendingRequests
            /\ procs'[b].stdin = procs[b].stdin]_vars

\* C8: while the handshake call of a bridge is pending, the handshake is the only
\* request written to its worker.
C8_OnlyHandshakeUntilSettled ==
    \A b \in Bridges :
        "pending" \in HandshakeState(b) => Len(procs[b].stdin) = 1

\* C9: after initialize() has rejected, no live worker is attached to the bridge.
C9_NoLiveWorkerAfterFailedInit ==
    \A b \in Bridges :
        inits[b].promise = "rejected" =>
            ~(bridges[b].pythonProcess # 0 /\ procs[b].state = "alive")

\* C10: at most one worker is Ready.
C10_AtMostOneReady == Cardinality({b \in Bridges : Ready(b)}) <= 1

----------------------------------------------------------------------------
\* C11: call() on a bridge to which no process is attached (runtime resolution
\* failed, or terminate() has run) fails with "Python process not initialized":
\* the returned promise is rejected with that error, no id is taken, no entry is
\* stored, no timer is armed and nothing is written to a worker.
C11_CallWithoutProcessFails ==
    [][\A b \in Bridges :
          (bridges[b].pythonProcess = 0 /\ Len(calls') = Len(calls) + 1
              /\ calls'[Len(calls')].bridge = b) =>
            /\ calls'[Len(calls')].state = "rejected"
            /\ calls'[Len(calls')].value = NotInitializedError
            /\ calls'[Len(calls')].timeout = "none"
            /\ bridges' = bridges
            /\ procs' = procs]_vars

\* call() has failed on a bridge whose process terminate() had detached.
C11_Witness ==
    \E h \in Handles :
        /\ calls[h].state = "rejected" /\ calls[h].value = NotInitializedError
        /\ bridges[calls[h].bridge].pythonProcess = 0
        /\ procs[calls[h].bridge].state = "killed"

----------------------------------------------------------------------------
\* The error response m of the worker answers an entry pending on bridge b.
AnswersPending(b, m) == m.id # 0 /\ m.id \in DOMAIN bridges[b].pendingRequests

\* C12 as stated: an error response {id, error: {message: m}} to a pending call
\* rejects the call with exactly m, for every string m.
C12_ErrorMessageVerbatim ==
    [][vars' # vars =>
        \A b \in Bridges, m \in Inbound :
          \/ ~(m.error /\ AnswersPending(b, m))
          \/ LET h == bridges[b].pendingRequests[m.id]
             IN calls'[h].state = "rejected" /\ calls'[h].value = m.errorMessage
          \/ ~HandleMessage(b, m)]_vars

\* C12: an error response {id, error: {message: m}} to a pending call rejects
\* the call with exactly m when m is not empty, and with "Unknown error" when
\* the message is empty or absent.
C12_ErrorMessageVerbatimUnlessEmpty ==
    [][vars' # vars =>
        \A b \in Bridges, m \in Inbound :
          \/ ~(m.error /\ AnswersPending(b, m))
          \/ LET h == bridges[b].pendingRequests[m.id]
             IN /\ calls'[h].state = "rejected"
                /\ m.errorMessage # "" => calls'[h].value = m.errorMessage
                /\ m.errorMessage = "" => calls'[h].value = "Unknown error"
          \/ ~HandleMessage(b, m)]_vars

\* A call was rejected with the worker's own message, and another with the text
\* that replaces an empty message.
C12_Witness ==
    /\ \E h \in Handles : calls[h].state = "rejected" /\ calls[h].value = "boom"
    /\ \E h \in Handles : calls[h].state = "rejected" /\ calls[h].value = "Unknown error"

----------------------------------------------------------------------------
\* C13: a success response {id: i, result: r} to the pending call whose request
\* was written with id i resolves that call with exactly r, whatever the method.
C13_SuccessResolvesWithResult ==
    [][vars' # vars =>
        \A b \in Bridges, m \in Inbound :
          \/ ~(~m.error /\ AnswersPending(b, m))
          \/ LET h == bridges[b].pendingRequests[m.id]
             IN /\ \E k \in 1..Len(procs[b].stdin) :
                      procs[b].stdin[k] = [method |-> calls[h].method, id |-> m.id]
                /\ calls'[h].state = "resolved"
                /\ calls'[h].value = m.result
          \/ ~HandleMessage(b, m)]_vars

\* A command of the interface and a handshake have both resolved with the result
\* of their response.
C13_Witness ==
    /\ \E h \in Handles : /\ calls[h].caller = "ipc"
                          /\ calls[h].state = "resolved" /\ calls[h].value \in Results
    /\ \E h \in Handles : /\ calls[h].caller = "initialize"
                          /\ calls[h].state = "resolved" /\ calls[h].value \in Results

----------------------------------------------------------------------------
\* The calls that call() accepted on bridge b, among the first n invocations.
AcceptedOn(b, n) == {g \in 1..n : calls[g].bridge = b /\ calls[g].id # 0}

\* C14: on each bridge the k-th accepted call has id k and requestId is the number
\* of calls accepted so far (ids start at 1, grow by one, and nothing resets the
\* counter); every entry of the table is stored under the id of its call, and no
\* two calls in the table of one bridge have the same id.
C14_IdsSequentialNeverReset ==
    /\ \A b \in Bridges :
          /\ bridges[b].requestId = Cardinality(AcceptedOn(b, Len(calls)))
          /\ \A id \in DOMAIN bridges[b].pendingRequests :
                LET h == bridges[b].pendingRequests[id]
                IN h \in Handles /\ calls[h].bridge = b /\ calls[h].id = id
    /\ \A h \in Handles :
          Accepted(h) => calls[h].id = Cardinality(AcceptedOn(calls[h].bridge, h))
    /\ \A g \in Handles, h \in Handles :
          (g # h /\ calls[g].bridge = calls[h].bridge
              /\ InTable(bridges, g) /\ InTable(bridges, h)) => calls[g].id # calls[h].id

\* A bridge has accepted two calls, one of them has timed out, and terminate() has
\* run: its counter still stands at 2.
C14_Witness ==
    \E b \in Bridges :
        /\ bridges[b].requestId = 2
        /\ bridges[b].pythonProcess = 0 /\ procs[b].state = "killed"
        /\ \E h \in Handles : calls[h].bridge = b /\ calls[h].timeout = "fired"

----------------------------------------------------------------------------
\* C15: the step in which the 60 s timer of call h fires changes nothing but h and
\* the entry of h: no worker is killed or written to, every bridge keeps its
\* process handle, its isInitialized flag and its id counter, every other entry
\* stays in its table, and every other call, with its timer, is unchanged.
C15_TimeoutAffectsOnlyItsCall ==
    [][\A h \in Handles :
          (calls[h].timeout = "armed" /\ calls'[h].timeout = "fired") =>
            /\ procs' = procs
            /\ pythonBridge' = pythonBridge
            /\ inits' = inits
            /\ \A b \in Bridges :
                  bridges'[b] =
                     IF b = calls[h].bridge
                     THEN [bridges[b] EXCEPT !.pendingRequests = MapDelete(@, calls[h].id)]
                     ELSE bridges[b]
            /\ \A g \in Handles \ {h} : calls'[g] = calls[g]]_vars

\* The handshake has timed out on a running worker while a later
\* call of the same bridge is still pending, in the table, with its timer armed.
C15_Witness ==
    \E g \in Handles, h \in Handles :
        /\ g # h /\ calls[g].bridge = calls[h].bridge
        /\ calls[h].timeout = "fired" /\ calls[h].value = TimeoutError(h)
        /\ calls[g].state = "pending" /\ calls[g].timeout = "armed"
        /\ InTable(bridges, g)
        /\ procs[calls[h].bridge].state = "alive"
        /\ bridges[calls[h].bridge].pythonProcess # 0

----------------------------------------------------------------------------
\* C16: in every reachable state and for every bridge b, terminate() leaves b with
\* no process attached, isInitialized false and an empty table; on a bridge with
\* no process attached it signals no process; and terminate() applied to its own
\* result changes nothing.
C16_TerminateIdempotent ==
    \A b \in Bridges :
        LET T == terminate(State, b) IN
        /\ T.bridges[b].pythonProcess = 0
        /\ ~T.bridges[b].isInitialized
        /\ T.bridges[b].pendingRequests = EmptyMap
        /\ bridges[b].pythonProcess = 0 => T.procs = procs
        /\ terminate(T, b) = T

\* terminate() has run on the current bridge while a call was pending on it, and
\* another bridge never had a process: 'before-quit' can run terminate() again.
C16_Witness ==
    /\ pythonBridge # 0
    /\ bridges[pythonBridge].pythonProcess = 0
    /\ procs[pythonBridge].state = "killed"
    /\ \E h \in Handles : calls[h].bridge = pythonBridge /\ calls[h].state = "pending"
    /\ \E b \in Bridges : procs[b].state = "none"

----------------------------------------------------------------------------
\* Vocabulary of the scheduler's properties.

\* The sync timers that still tick.
ActiveTimers == {t \in 1..Len(timers) : timers[t].active}

\* The period, in milliseconds, of a timer set for the stored frequency.
ConfiguredPeriod(st) == st.syncFrequency * 60 * 1000

\* C17: at most one sync timer is active, and an active timer is the one held in
\* syncInterval: no tick can come from a timer whose handle was replaced or
\* dropped.
C17_AtMostOneTimerAndHeld ==
    /\ Cardinality(ActiveTimers) <= 1
    /\ \A t \in ActiveTimers : syncInterval = t

\* A timer was cancelled at quit, the scheduler was started again, and only the
\* second timer is active.
C17_Witness ==
    /\ Len(timers) = 2
    /\ ~timers[1].active /\ timers[2].active /\ syncInterval = 2
    /\ \E b \in Bridges : procs[b].state = "killed"

\* syncInterval holds the handle of a timer that 'before-quit' has cancelled.
HandleStale == syncInterval # 0 /\ ~timers[syncInterval].active

\* C18 as stated: from enable(5) on, through pause() and resume(), exactly one sync
\* timer is active at every point, never zero and never two.
C18_ExactlyOneTimerAtAllTimes ==
    (Len(timers) >= 1 /\ timers[1].period = 5 * 60 * 1000 /\ ~HandleStale)
        => Cardinality(ActiveTimers) = 1

\* C18: through enable, pause() and resume() at most one sync timer is active at
\* every point: exactly one, the one held in syncInterval, after a step that
\* starts the scheduler (enable or resume), and none after a step that pauses it.
C18_OneTimerExceptWhilePaused ==
    /\ [](Cardinality(ActiveTimers) <= 1)
    /\ [][(Len(timers') > Len(timers) =>
                /\ ActiveTimers' = {Len(timers')}
                /\ syncInterval' = Len(timers'))
           /\ ((~pauseChecked /\ pauseChecked') =>
                /\ ActiveTimers' = {}
                /\ syncInterval' = 0
                /\ Len(timers') = Len(timers))
           /\ ((pauseChecked /\ ~pauseChecked') =>
                Len(timers') = Len(timers) + 1)]_vars

\* enable(5), pause(), resume() have run with autoStart set: the timer of enable
\* is cancelled, the timer of resume is the only active one, and no quit occurred.
C18_Witness ==
    /\ store.autoStart /\ ~pauseChecked
    /\ Len(timers) = 2
    /\ timers[1].period = 5 * 60 * 1000 /\ ~timers[1].active
    /\ ActiveTimers = {2} /\ syncInterval = 2
    /\ \A b \in Bridges : procs[b].state # "killed"

\* C19: a resume that follows a pause of a timer, with no setting saved in
\* between, starts a timer whose period is the period of the timer that the pause
\* cancelled.
C19_ResumeKeepsPeriod ==
    [][(pauseChecked /\ ~pauseChecked' /\ syncInterval = 0 /\ Len(timers) >= 1) =>
            /\ Len(timers') = Len(timers) + 1
            /\ timers'[Len(timers')].active
            /\ timers'[Len(timers')].period = timers[Len(timers)].period]_vars

\* What the code does on such a resume: the new timer has the period of the
\* frequency that is stored at that moment.
C19_ResumeUsesStoredFrequency ==
    [][(pauseChecked /\ ~pauseChecked' /\ syncInterval = 0 /\ Len(timers) >= 1) =>
            /\ Len(timers') = Len(timers) + 1
            /\ timers'[Len(timers')].active
            /\ timers'[Len(timers')].period = ConfiguredPeriod(store)]_vars

\* C20: after 'config:set' has changed syncFrequency while a timer is active, the
\* active timer has the period of the new frequency.
C20_ReconfigureRestartsTimer ==
    [][(store'.syncFrequency # store.syncFrequency /\ ActiveTimers # {}) =>
            /\ ActiveTimers' # {}
            /\ \A t \in ActiveTimers' : timers'[t].period = ConfiguredPeriod(store')]_vars

----------------------------------------------------------------------------
\* Vocabulary of the properties of sync runs.

\* The invocations of triggerManualSync() so far, by the handle of their call.
SyncRuns == DOMAIN syncRuns

\* The run_sync call of invocation h is outstanding.
Outstanding(h) == h \in SyncRuns /\ calls[h].state = "pending"

\* The names of the events that invocation h has sent, in order.
EventNames(runs, h) == [i \in 1..Len(runs[h].events) |-> runs[h].events[i].name]

\* C21: a step that is a manual trigger leaves the scheduler untouched: the
\* handle in syncInterval and every timer, with its period and whether it still
\* ticks, are unchanged, and the calls of the other invocations are unchanged.
C21_ManualSyncLeavesTimer ==
    [][\A h \in DOMAIN syncRuns' \ SyncRuns :
          syncRuns'[h].origin = "manual" =>
            /\ syncInterval' = syncInterval
            /\ timers' = timers
            /\ \A g \in Handles : calls'[g] = calls[g]]_vars

\* With the timer active, a manual run and a timer-triggered run are outstanding
\* at the same time, under different ids of the same bridge.
C21_Witness ==
    /\ ActiveTimers # {} /\ syncInterval \in ActiveTimers
    /\ \E g \in SyncRuns, h \in SyncRuns :
          /\ syncRuns[g].origin = "timer" /\ syncRuns[h].origin = "manual"
          /\ Outstanding(g) /\ Outstanding(h) /\ g < h
          /\ InTable(bridges, g) /\ InTable(bridges, h)
          /\ calls[g].id # calls[h].id

----------------------------------------------------------------------------
\* The timer-triggered invocations whose run_sync call has failed.
FailedTicks ==
    {h \in SyncRuns : syncRuns[h].origin = "timer" /\ calls[h].state = "rejected"}

\* C22: a failed scheduled sync is reported and never stops the timer.  Every
\* invocation whose call failed, for whatever reason, has sent exactly one
\* 'sync:error', carrying the error of the call, so that k failed ticks have
\* sent k failure events; and the step in which a sync fails cancels no timer
\* and drops no handle held in syncInterval.
C22_FailedSyncKeepsTimer ==
    /\ [](\A h \in SyncRuns :
            calls[h].state = "rejected" =>
                /\ EventNames(syncRuns, h) = <<"sync:started", "sync:error">>
                /\ syncRuns[h].events[2].payload = calls[h].value)
    /\ [][\A h \in DOMAIN syncRuns' :
            (calls'[h].state = "rejected" /\ (h \in Handles => calls[h].state = "pending"))
                => /\ syncInterval # 0 => syncInterval' = syncInterval
                   /\ \A t \in 1..Len(timers) : timers'[t] = timers[t]]_vars

\* Two ticks have failed for different reasons, two failure events have been
\* sent, and the timer is still active.
C22_Witness ==
    /\ Cardinality(FailedTicks) = 2
    /\ \E g \in FailedTicks, h \in FailedTicks : calls[g].value # calls[h].value
    /\ \A h \in FailedTicks : Len(syncRuns[h].events) = 2
    /\ ActiveTimers # {} /\ syncInterval \in ActiveTimers

----------------------------------------------------------------------------
\* The events owed by invocation h, given the state of its call: 'sync:started'
\* first, and once the call has settled one terminal event with its outcome.
OwedEvents(h) ==
    CASE calls[h].state = "pending" -> <<[name |-> "sync:started", payload |-> ""]>>
      [] calls[h].state = "resolved" ->
            <<[name |-> "sync:started", payload |-> ""],
              [name |-> "sync:completed", payload |-> calls[h].value]>>
      [] OTHER ->
            <<[name |-> "sync:started", payload |-> ""],
              [name |-> "sync:error", payload |-> calls[h].value]>>

\* C23: every sync invocation has sent 'sync:started' and, once its call has
\* settled, exactly one terminal event: 'sync:completed' with the result when the
\* call resolved, 'sync:error' with the error message when it rejected.
C23_ExactlyOneTerminalEvent ==
    \A h \in SyncRuns : syncRuns[h].events = OwedEvents(h)

\* The same for every invocation whose call did not resolve with a null result.
C23_ExactlyOneTerminalEventUnlessNull ==
    \A h \in SyncRuns :
        ~(calls[h].state = "resolved" /\ calls[h].value = NullResult)
            => syncRuns[h].events = OwedEvents(h)

----------------------------------------------------------------------------
\* C24: the scheduler leaves Stopped only by enabling auto-sync: while autoStart
\* is off and no timer was ever set, a resume (the tray's pause item going from
\* checked to unchecked) sets no timer.
C24_ResumeOnlyFromPaused ==
    [][(~store.autoStart /\ timers = <<>> /\ pauseChecked /\ ~pauseChecked')
            => timers' = <<>> /\ syncInterval' = 0]_vars

----------------------------------------------------------------------------
\* A device record of the shape the router is to accept: a name, and an address
\* of four numbers between 0 and 255.
WellFormed(device) ==
    /\ device.name # ""
    /\ Len(device.ip) = 4
    /\ \A i \in 1..Len(device.ip) : device.ip[i] \in 0..255

\* C25: no request written to a worker carries a malformed device record.
C25_MalformedNeverReachesWorker ==
    \A b \in Bridges : \A k \in 1..Len(procs[b].stdin) :
        "params" \in DOMAIN procs[b].stdin[k] => WellFormed(procs[b].stdin[k].params)

----------------------------------------------------------------------------
\* The place of a strategy in the order bundled location, well-known
\* installation paths, bare command name.
StrategyRank(kind) ==
    CASE kind = "bundled" -> 1 [] kind = "path" -> 2 [] kind = "command" -> 3

Tried(kind) == \E i \in 1..Len(runtime.attempts) : runtime.attempts[i].kind = kind

\* C27: resolution probes the bundled location, then the well-known installation
\* paths, then the bare command names; it returns the first candidate, in that
\* order, that succeeds, and it reports failure only after all three strategies
\* have been attempted.
C27_ProbeOrder ==
    runtime.result # "" =>
        /\ \A i \in 1..Len(runtime.attempts), j \in 1..Len(runtime.attempts) :
              i < j => StrategyRank(runtime.attempts[i].kind)
                          <= StrategyRank(runtime.attempts[j].kind)
        /\ runtime.result = "Python 3 not found" =>
              Tried("bundled") /\ Tried("path") /\ Tried("command")

----------------------------------------------------------------------------
\* initialize() of bridge b failed because getPythonPath() threw.
RuntimeNotResolved(b) == inits[b].error = "Python 3 not found"

\* C26: the isPythonMissing flag of a 'python:error' event is true exactly when
\* initialize() failed because no Python runtime could be resolved; it is false
\* for a missing worker script, a handshake timeout, a handshake error and a
\* process exit.
C26_MissingFlagOnlyForRuntime ==
    \A b \in Bridges :
        inits[b].event.name = "python:error" =>
            (inits[b].event.isPythonMissing <=> RuntimeNotResolved(b))

\* C26 holds for every failure but the missing worker script.
C26_MissingFlagExceptScript ==
    \A b \in Bridges :
        (/\ inits[b].event.name = "python:error"
         /\ inits[b].error # "Python script not found") =>
            (inits[b].event.isPythonMissing <=> RuntimeNotResolved(b))

----------------------------------------------------------------------------
\* C28: isInitialized is true only if the initialize() promise of that bridge
\* resolved; once initialize() has rejected, a late handshake response does not
\* make the bridge Ready.
C28_ReadyOnlyAfterResolve ==
    \A b \in Bridges : bridges[b].isInitialized => inits[b].promise = "resolved"

----------------------------------------------------------------------------
\* C29: once the 'before-quit' handler has run, every worker process that was
\* spawned has exited or been killed, whatever starts and retries came before.
C29_NoOrphanAfterQuit ==
    [][(vars' # vars /\ BeforeQuit) =>
          \A b \in 1..Len(procs') : procs'[b].state # "alive"]_vars

----------------------------------------------------------------------------
\* C30: the interface's isRunning is true whenever at least one run_sync call
\* is outstanding, overlapping runs included, and false when none is.
C30_IndicatorTracksOutstanding ==
    isRunning <=> (\E h \in SyncRuns : Outstanding(h))

====
